---- MODULE Spec2Model ----
(***************************************************************************)
(* A model of trade_journal.py: the SQLite table `trades`, the four       *)
(* statements issued against it, the form handler that validates and      *)
(* inserts, the filter mask and the weekly / monthly group counts.        *)
(*                                                                         *)
(* Every interaction with the page runs the whole script once, so every   *)
(* action below starts with the database setup of lines 13-35 and ends    *)
(* with the page that the run renders.                                     *)
(*                                                                         *)
(* Encodings.  Prices and rr are kept in hundredths (1.10 is 110, an rr   *)
(* of 0.38 is 38).  A nullable column holds None (SQL NULL) or Some(v).   *)
(* The text "YYYY-MM-DD HH:MM:SS" is the tuple <<Y, m, d, H, M, S>>.       *)
(* A pandas Timestamp is [days, secs]: days since 1970-01-01 and seconds  *)
(* since midnight.                                                         *)
(***************************************************************************)
EXTENDS Integers, Sequences, FiniteSets, TLC

VARIABLES
    db,           \* the file trade_journal.db: [columns, trades, seq]
    event,        \* the interaction that caused the latest script run
    notice,       \* the status element the latest handler emitted
    issued,       \* history: the ids handed out so far, oldest first
    all_trades,   \* the DataFrame loaded at line 101
    pair_filter,  \* the widgets of lines 105-109
    type_filter,
    date_filter,
    filtered,     \* the DataFrame of lines 111-113
    weekly,       \* the Series of line 161
    monthly       \* the Series of line 165

vars ==
    <<db, event, notice, issued, all_trades, pair_filter, type_filter,
      date_filter, filtered, weekly, monthly>>

-----------------------------------------------------------------------------
(* Bounds of the model. *)

\* Inserts are explored while the next id is at most MaxId.
MaxId ==
    2

\* The DataFrames of the view specification hold at most MaxRecords rows.
MaxRecords ==
    2

\* The databases an older version left behind hold at most MaxLegacyRows rows.
MaxLegacyRows ==
    2

-----------------------------------------------------------------------------
(* Values. *)

None ==
    <<>>

Some(v) ==
    <<v>>

\* Python's `x or None`: a falsy x ("" or 0) becomes None.
or_None(x, falsy) ==
    IF x = falsy THEN None ELSE Some(x)

EmptyMap ==
    [k \in {} |-> 0]

Range(s) ==
    {s[i] : i \in DOMAIN s}

-----------------------------------------------------------------------------
(* Dates: strftime, pd.to_datetime, .dt.isocalendar().week, .dt.month.     *)

\* Days since 1970-01-01 of the proleptic Gregorian date y-m-d.
days_from_civil(y, m, d) ==
    LET yy  == IF m <= 2 THEN y - 1 ELSE y
        era == yy \div 400
        yoe == yy - era * 400
        mp  == (m + 9) % 12
        doy == (153 * mp + 2) \div 5 + d - 1
        doe == yoe * 365 + yoe \div 4 - yoe \div 100 + doy
    IN  era * 146097 + doe - 719468

\* The inverse: the [year, month, day] of a day number.
civil_from_days(z) ==
    LET zz  == z + 719468
        era == zz \div 146097
        doe == zz - era * 146097
        yoe == (doe - doe \div 1460 + doe \div 36524 - doe \div 146096) \div 365
        doy == doe - (365 * yoe + yoe \div 4 - yoe \div 100)
        mp  == (5 * doy + 2) \div 153
        d   == doy - (153 * mp + 2) \div 5 + 1
        m   == IF mp < 10 THEN mp + 3 ELSE mp - 9
        y   == yoe + era * 400
    IN  [year |-> IF m <= 2 THEN y + 1 ELSE y, month |-> m, day |-> d]

\* india_time.strftime("%Y-%m-%d %H:%M:%S"): the microseconds are dropped.
strftime(t) ==
    <<t.year, t.month, t.day, t.hour, t.minute, t.second>>

\* pd.to_datetime of a "YYYY-MM-DD HH:MM:SS" text.
to_datetime(s) ==
    [days |-> days_from_civil(s[1], s[2], s[3]),
     secs |-> s[4] * 3600 + s[5] * 60 + s[6]]

\* pd.to_datetime of a datetime.date: midnight of that day.
to_datetime_date(d) ==
    [days |-> days_from_civil(d.year, d.month, d.day), secs |-> 0]

\* Mutation of ts_ge: a strict comparison.
ts_gt(a, b) ==
    \/ a.days > b.days
    \/ a.days = b.days /\ a.secs > b.secs

\* Timestamp >= Timestamp.
ts_ge(a, b) ==
    \/ a.days > b.days
    \/ a.days = b.days /\ a.secs >= b.secs

\* Monday is 0; 1970-01-01 was a Thursday.
weekday(days) ==
    (days + 3) % 7

\* The day number of the Monday that starts ISO week 1 of `year`.
isoweek1monday(year) ==
    LET firstday     == days_from_civil(year, 1, 1)
        firstweekday == weekday(firstday)
        week1monday  == firstday - firstweekday
    IN  IF firstweekday > 3 THEN week1monday + 7 ELSE week1monday

\* Mutation of isocalendar_week: weeks counted from 1 January.
week_from_new_year(ts) ==
    (ts.days - days_from_civil(civil_from_days(ts.days).year, 1, 1)) \div 7 + 1

\* Timestamp.isocalendar().week
isocalendar_week(ts) ==
    LET year  == civil_from_days(ts.days).year
        today == ts.days
        w1    == isoweek1monday(year)
    IN  IF today < w1
        THEN (today - isoweek1monday(year - 1)) \div 7 + 1
        ELSE IF (today - w1) \div 7 >= 52 /\ today >= isoweek1monday(year + 1)
             THEN 1
             ELSE (today - w1) \div 7 + 1

\* Timestamp.month
dt_month(ts) ==
    civil_from_days(ts.days).month

-----------------------------------------------------------------------------
(* The database: lines 8-54.                                               *)

BaseColumns ==
    <<"id", "pair", "trade_type", "time", "tp", "sl", "rr", "reason">>

OptionalColumns ==
    {"entry_price", "result", "pips"}

\* What sqlite3.connect creates when the file does not exist.
EmptyFile ==
    [columns |-> <<>>, trades |-> {}, seq |-> 0]

\* CREATE TABLE IF NOT EXISTS trades (...): an absent table has no columns.
create_table(d) ==
    IF d.columns = <<>> THEN [d EXCEPT !.columns = BaseColumns] ELSE d

\* Mutation of add_column: the table is dropped and created anew.
add_column_recreate(d, col) ==
    [d EXCEPT !.columns = Append(@, col), !.trades = {}]

\* ALTER TABLE trades ADD COLUMN col: the rows there get NULL in it.
add_column(d, col) ==
    [d EXCEPT
        !.columns = Append(@, col),
        !.trades  = {[c \in DOMAIN r \cup {col} |->
                         IF c = col THEN None ELSE r[c]] : r \in @}]

\* if col not in existing_cols: ALTER TABLE ...
add_if_missing(d, existing_cols, col) ==
    IF col \notin Range(existing_cols) THEN add_column(d, col) ELSE d

\* Lines 13-35: the base table, then the three optional columns, each
\* tested against the one PRAGMA table_info read of line 27.
db_setup(d) ==
    LET d1            == create_table(d)
        existing_cols == d1.columns
        d2            == add_if_missing(d1, existing_cols, "entry_price")
        d3            == add_if_missing(d2, existing_cols, "result")
    IN  add_if_missing(d3, existing_cols, "pips")

SetMax(S) ==
    CHOOSE x \in S : \A y \in S : y <= x

Ids(d) ==
    {r.id : r \in d.trades}

\* Mutation of next_rowid: a key without AUTOINCREMENT, one more than the
\* largest rowid now in the table.
next_rowid_reuse(d) ==
    SetMax({0} \cup Ids(d)) + 1

\* The rowid an INTEGER PRIMARY KEY AUTOINCREMENT column gets: one more than
\* the largest rowid the table has ever held (sqlite_sequence.seq).
next_rowid(d) ==
    SetMax({d.seq} \cup Ids(d)) + 1

\* Lines 38-43.  Columns the statement does not name get NULL.
insert_trade(d, pair, trade_type, time, entry_price, tp, sl, rr, result, pips, reason) ==
    LET id     == next_rowid(d)
        given  == [pair |-> pair, trade_type |-> trade_type, time |-> time,
                   entry_price |-> Some(entry_price), tp |-> tp, sl |-> sl,
                   rr |-> rr, result |-> result, pips |-> pips,
                   reason |-> reason]
        row    == [c \in Range(d.columns) |->
                     IF c = "id" THEN id
                     ELSE IF c \in DOMAIN given THEN given[c] ELSE None]
    IN  [d EXCEPT !.trades = @ \cup {row}, !.seq = id]

\* Mutation of delete_trade: the condition inverted (WHERE id != ?).
delete_trade_others(d, trade_id) ==
    [d EXCEPT !.trades = {r \in @ : r.id = trade_id}]

\* Mutation of delete_trade: WHERE id <= ?.
delete_trade_up_to(d, trade_id) ==
    [d EXCEPT !.trades = {r \in @ : r.id > trade_id}]

\* Lines 48-50.
delete_trade(d, trade_id) ==
    [d EXCEPT !.trades = {r \in @ : r.id # trade_id}]

\* Mutation of update_result_pips: the WHERE clause left out.
update_result_pips_no_where(d, trade_id, result, pips) ==
    [d EXCEPT !.trades =
        {[r EXCEPT !.result = Some(result), !.pips = Some(pips)] : r \in @}]

\* Lines 52-54.
update_result_pips(d, trade_id, result, pips) ==
    [d EXCEPT !.trades =
        {IF r.id = trade_id
         THEN [r EXCEPT !.result = Some(result), !.pips = Some(pips)]
         ELSE r : r \in @}]

RECURSIVE scan(_)
\* A full scan of the table's b-tree: rows by ascending rowid.
scan(rows) ==
    IF rows = {} THEN <<>>
    ELSE LET first == CHOOSE r \in rows : \A q \in rows : r.id <= q.id
         IN  <<first>> \o scan(rows \ {first})

\* Mutation of get_all_trades: ORDER BY id DESC.
get_all_trades_newest_first(d) ==
    [i \in 1 .. Len(scan(d.trades)) |->
        scan(d.trades)[Len(scan(d.trades)) + 1 - i]]

\* Lines 45-46: SELECT * FROM trades, read into a DataFrame.
get_all_trades(d) ==
    scan(d.trades)

-----------------------------------------------------------------------------
(* The page: lines 71-168.                                                 *)

\* The options of the form's widgets (lines 76, 77, 82).
PairOptions ==
    {"USDJPY", "EURUSD", "GBPUSD", "XAUUSD"}

TypeOptions ==
    {"Buy", "Sell"}

\* date_input(value=datetime(2025, 1, 1)), line 109.
DefaultDate ==
    [year |-> 2025, month |-> 1, day |-> 1]

\* Mutation of Round2: the quotient cut off after two decimals.
Round2_truncated(tp, sl) ==
    (100 * tp) \div sl

\* round(tp / sl, 2) in hundredths, for tp > 0 and 0 < sl < 40.  The float
\* tp / sl is rounded to the nearest hundredth.  With sl < 40 the quotient
\* lies half way between two hundredths only when it is an odd multiple of
\* 1/8, which a float holds exactly, and round() then takes the even one.
Round2(tp, sl) ==
    LET q == (100 * tp) \div sl
        r == (100 * tp) % sl
    IN  IF 2 * r < sl THEN q
        ELSE IF 2 * r > sl THEN q + 1
        ELSE IF q % 2 = 0 THEN q ELSE q + 1

\* Mutation of form_valid: the entry price not tested.
form_valid_no_price(tp, sl, entry_price) ==
    tp > 0 /\ sl > 0

\* Line 90.
form_valid(tp, sl, entry_price) ==
    tp > 0 /\ sl > 0 /\ entry_price > 0

\* One row of the mask of lines 111-113.
mask(row, pairs, types, from) ==
    /\ row.pair \in pairs
    /\ row.trade_type \in types
    /\ ts_ge(to_datetime(row.time), to_datetime_date(from))

RECURSIVE select(_, _, _, _)
\* all_trades[mask]: boolean indexing keeps the rows whose mask is True.
select(frame, pairs, types, from) ==
    IF frame = <<>> THEN <<>>
    ELSE (IF mask(Head(frame), pairs, types, from)
          THEN <<Head(frame)>> ELSE <<>>)
         \o select(Tail(frame), pairs, types, from)

\* all_trades["pair"].unique()
unique_pairs(frame) ==
    {frame[i].pair : i \in DOMAIN frame}

\* One more occurrence of key k in the counts so far.
count_key(acc, k) ==
    [x \in DOMAIN acc \cup {k} |->
        IF x = k
        THEN (IF k \in DOMAIN acc THEN acc[k] + 1 ELSE 1)
        ELSE acc[x]]

RECURSIVE groupby_size(_)
\* frame.groupby(key).size(), given the key of each row.
groupby_size(keys) ==
    IF keys = <<>> THEN EmptyMap
    ELSE count_key(groupby_size(SubSeq(keys, 1, Len(keys) - 1)),
                   keys[Len(keys)])

\* Lines 154-155 and 161.
weekly_counts(frame) ==
    groupby_size([i \in DOMAIN frame |->
                     isocalendar_week(to_datetime(frame[i].time))])

\* Lines 154, 156 and 165.
monthly_counts(frame) ==
    groupby_size([i \in DOMAIN frame |-> dt_month(to_datetime(frame[i].time))])

\* Lines 101-168 of one run over database d with the widgets as given.  When
\* the frame is empty line 153 skips the charts: no bucket is drawn.
Render(d, pairs, types, from) ==
    /\ all_trades'  = get_all_trades(d)
    /\ pair_filter' = pairs
    /\ type_filter' = types
    /\ date_filter' = from
    /\ filtered'    = select(all_trades', pairs, types, from)
    /\ weekly'      = weekly_counts(all_trades')
    /\ monthly'     = monthly_counts(all_trades')

\* The widgets as the script declares them: every pair, both types, 2025-01-01.
RenderDefault(d) ==
    Render(d, unique_pairs(get_all_trades(d)), TypeOptions, DefaultDate)

-----------------------------------------------------------------------------
(* Inputs.                                                                 *)

Form(pair, trade_type, entry_price, tp, sl, result, pips, reason) ==
    [pair |-> pair, trade_type |-> trade_type, entry_price |-> entry_price,
     tp |-> tp, sl |-> sl, result |-> result, pips |-> pips,
     reason |-> reason]

\* The form as the script declares it: first options, number inputs at 0.
BlankForm ==
    Form("USDJPY", "Buy", 0, 0, 0, "", 0, "")

\* Submissions that pass line 90: rr 2.0, 0.12 (1/8, half way) and 0.38.
ValidForms ==
    {Form("EURUSD", "Buy", 110, 50, 25, "", 0, ""),
     Form("USDJPY", "Sell", 15025, 1, 8, "Win", 25, "breakout"),
     Form("EURUSD", "Sell", 110, 3, 8, "Loss", -10, "news")}

\* Submissions that fail it, one field at a time and all at once.
InvalidForms ==
    {BlankForm,
     Form("EURUSD", "Buy", 110, -5, 25, "Win", 25, "x"),
     Form("USDJPY", "Sell", 15025, 1, 0, "", 0, ""),
     Form("USDJPY", "Sell", 0, 1, 8, "Win", 25, "breakout")}

Forms ==
    ValidForms \cup InvalidForms

Instant(y, m, d, H, M, S, us) ==
    [year |-> y, month |-> m, day |-> d, hour |-> H, minute |-> M,
     second |-> S, microsecond |-> us]

NoInstant ==
    Instant(1970, 1, 1, 0, 0, 0, 0)

\* What datetime.now(Asia/Kolkata) may return while the store is explored:
\* the last microsecond of 2024 and a Monday morning of 2025.
StoreClock ==
    {Instant(2024, 12, 31, 23, 59, 59, 999999),
     Instant(2025, 1, 6, 9, 30, 0, 0)}

\* Values of the update widgets (lines 129-130).
UpdateInputs ==
    {<<"Breakeven", 0>>}

\* Values of the two id widgets (lines 128, 137); 0 is their initial value.
IdInputs ==
    0 .. MaxId

Event(kind, form, now, id, result, pips) ==
    [kind |-> kind, form |-> form, now |-> now, id |-> id,
     result |-> result, pips |-> pips]

NoEvent ==
    Event("none", BlankForm, NoInstant, 0, "", 0)

-----------------------------------------------------------------------------
(* The store specification: submit, update and delete on a fresh file.     *)

Init ==
    /\ db = db_setup(EmptyFile)
    /\ event = NoEvent
    /\ notice = "none"
    /\ issued = <<>>
    /\ all_trades = <<>>
    /\ pair_filter = {}
    /\ type_filter = TypeOptions
    /\ date_filter = DefaultDate
    /\ filtered = <<>>
    /\ weekly = EmptyMap
    /\ monthly = EmptyMap

\* Lines 89-96, with the run around them: "Save Trade" pressed on form f at
\* clock reading now.
SubmitTrade(f, now) ==
    LET d0 == db_setup(db)
        rr == Round2(f.tp, f.sl)
        d1 == insert_trade(d0, f.pair, f.trade_type, strftime(now),
                           f.entry_price, f.tp, f.sl, rr,
                           or_None(f.result, ""), or_None(f.pips, 0),
                           f.reason)
    IN  /\ event' = Event("submit", f, now, 0, "", 0)
        /\ IF form_valid(f.tp, f.sl, f.entry_price)
           THEN /\ next_rowid(d0) <= MaxId
                /\ db' = d1
                /\ issued' = Append(issued, next_rowid(d0))
                /\ notice' = "success"
           ELSE /\ db' = d0
                /\ issued' = issued
                /\ notice' = "error"
        /\ RenderDefault(db')

\* Whether the run of a click draws the two expanders (line 123): the frame
\* filtered by the widgets as they stand is not empty.
ExpandersShown ==
    filtered # <<>>

\* Lines 127-134: "Update Trade" pressed, then the rerun of line 134.
UpdateTrade(update_id, result_update, pips_update) ==
    LET d0 == db_setup(db)
    IN  /\ ExpandersShown
        /\ event' = Event("update", BlankForm, NoInstant, update_id,
                          result_update, pips_update)
        /\ db' = update_result_pips(d0, update_id, result_update, pips_update)
        /\ notice' = "success"
        /\ issued' = issued
        /\ RenderDefault(db_setup(db'))

\* Lines 136-141: "Delete Trade" pressed, then the rerun of line 141.
DeleteTrade(delete_id) ==
    LET d0 == db_setup(db)
    IN  /\ ExpandersShown
        /\ event' = Event("delete", BlankForm, NoInstant, delete_id, "", 0)
        /\ db' = delete_trade(d0, delete_id)
        /\ notice' = "warning"
        /\ issued' = issued
        /\ RenderDefault(db_setup(db'))

Next ==
    \/ \E f \in Forms, now \in StoreClock : SubmitTrade(f, now)
    \/ \E id \in IdInputs, u \in UpdateInputs : UpdateTrade(id, u[1], u[2])
    \/ \E id \in IdInputs : DeleteTrade(id)

Spec ==
    Init /\ [][Next]_vars

-----------------------------------------------------------------------------
(* The view specification: a stored frame, and the filter widgets moved.   *)

\* Clock readings of the stored rows: the last second before 2025-01-01
\* (ISO week 1 of 2025, month 12), its first second, and a day of ISO
\* week 53 (2027-01-01).
ViewClock ==
    {Instant(2024, 12, 31, 23, 59, 59, 0),
     Instant(2025, 1, 1, 0, 0, 0, 0),
     Instant(2027, 1, 1, 8, 0, 0, 0)}

\* Values of the date widget (line 109).
FilterDates ==
    {DefaultDate, [year |-> 2025, month |-> 1, day |-> 2]}

RECURSIVE load(_)
\* The database after the valid submissions subs = <<f, now>>, ... in order.
load(subs) ==
    IF subs = <<>> THEN db_setup(EmptyFile)
    ELSE LET f   == subs[Len(subs)][1]
             now == subs[Len(subs)][2]
         IN  insert_trade(load(SubSeq(subs, 1, Len(subs) - 1)), f.pair,
                          f.trade_type, strftime(now), f.entry_price, f.tp,
                          f.sl, Round2(f.tp, f.sl), or_None(f.result, ""),
                          or_None(f.pips, 0), f.reason)

StoredFiles ==
    {load(subs) :
        subs \in UNION {[1 .. n -> ValidForms \X ViewClock] :
                           n \in 0 .. MaxRecords}}

InitView ==
    /\ db \in StoredFiles
    /\ event = NoEvent
    /\ notice = "none"
    /\ issued = [i \in 1 .. db.seq |-> i]
    /\ all_trades = get_all_trades(db)
    /\ pair_filter = unique_pairs(all_trades)
    /\ type_filter = TypeOptions
    /\ date_filter = DefaultDate
    /\ filtered = select(all_trades, pair_filter, type_filter, date_filter)
    /\ weekly = weekly_counts(all_trades)
    /\ monthly = monthly_counts(all_trades)

\* A run caused by a filter widget: no handler fires, the page is redrawn.
Rerun(pairs, types, from) ==
    /\ db' = db_setup(db)
    /\ event' = Event("filter", BlankForm, NoInstant, 0, "", 0)
    /\ notice' = "none"
    /\ issued' = issued
    /\ Render(db', pairs, types, from)

\* Line 105: any selection of the pairs on offer.
ChangePairFilter(pairs) ==
    /\ pairs # pair_filter
    /\ Rerun(pairs, type_filter, date_filter)

\* Line 107.
ChangeTypeFilter(types) ==
    /\ types # type_filter
    /\ Rerun(pair_filter, types, date_filter)

\* Line 109.
ChangeDateFilter(from) ==
    /\ from # date_filter
    /\ Rerun(pair_filter, type_filter, from)

NextView ==
    \/ \E pairs \in SUBSET unique_pairs(all_trades) : ChangePairFilter(pairs)
    \/ \E types \in SUBSET TypeOptions : ChangeTypeFilter(types)
    \/ \E from \in FilterDates : ChangeDateFilter(from)

SpecView ==
    InitView /\ [][NextView]_vars

-----------------------------------------------------------------------------
(* The start-up specification: the script started on a file that an        *)
(* earlier version of the table left behind.                               *)

\* The optional columns an earlier version had added, in the order added.
OptionalOrders ==
    {o \in UNION {[1 .. n -> OptionalColumns] : n \in 0 .. 3} :
        \A i, j \in DOMAIN o : i # j => o[i] # o[j]}

\* A stored row cut down to the columns cols.
restrict(row, cols) ==
    [c \in Range(cols) |-> row[c]]

\* Rows as the insert of lines 38-43 writes them (ids 1, 2, ...).
LegacyRows ==
    {load(subs).trades :
        subs \in UNION {[1 .. n -> {<<f, Instant(2024, 12, 31, 23, 59, 59, 0)>> :
                                       f \in ValidForms}] :
                           n \in 0 .. MaxLegacyRows}}

LegacyFiles ==
    {EmptyFile} \cup
    {[columns |-> BaseColumns \o o,
      trades  |-> {restrict(r, BaseColumns \o o) : r \in rows},
      seq     |-> Cardinality(rows)] :
        o \in OptionalOrders, rows \in LegacyRows}

InitStart ==
    /\ db \in LegacyFiles
    /\ event = NoEvent
    /\ notice = "none"
    /\ issued = [i \in 1 .. db.seq |-> i]
    /\ all_trades = <<>>
    /\ pair_filter = {}
    /\ type_filter = TypeOptions
    /\ date_filter = DefaultDate
    /\ filtered = <<>>
    /\ weekly = EmptyMap
    /\ monthly = EmptyMap

\* One start of the script: lines 8-35, then the page with no handler fired.
Start ==
    /\ db' = db_setup(db)
    /\ event' = Event("start", BlankForm, NoInstant, 0, "", 0)
    /\ notice' = "none"
    /\ issued' = issued
    /\ RenderDefault(db')

NextStart ==
    Start

SpecStart ==
    InitStart /\ [][NextStart]_vars

-----------------------------------------------------------------------------
(* Properties.  What they need is stated here from the calendar and from   *)
(* arithmetic, not through the operators above.                            *)

Abs(x) ==
    IF x < 0 THEN -x ELSE x

\* k hundredths is tp / sl rounded to the nearest hundredth, the even one
\* when tp / sl lies half way between two.
IsRounded(k, tp, sl) ==
    /\ sl > 0
    /\ 2 * Abs(100 * tp - k * sl) <= sl
    /\ 2 * Abs(100 * tp - k * sl) = sl => k % 2 = 0

\* The calendar day of text s is on or after the date d.
OnOrAfter(s, d) ==
    \/ s[1] > d.year
    \/ s[1] = d.year /\ s[2] > d.month
    \/ s[1] = d.year /\ s[2] = d.month /\ s[3] >= d.day

IsLeap(y) ==
    (y % 4 = 0 /\ y % 100 # 0) \/ y % 400 = 0

DaysInYear(y) ==
    IF IsLeap(y) THEN 366 ELSE 365

\* Days of the year before month m begins.
DaysBefore(y, m) ==
    <<0, 31, 59, 90, 120, 151, 181, 212, 243, 273, 304, 334>>[m]
    + (IF m > 2 /\ IsLeap(y) THEN 1 ELSE 0)

DayOfYear(y, m, d) ==
    DaysBefore(y, m) + d

\* Day of the week by Sakamoto's table, turned to Monday = 0 .. Sunday = 6.
DayOfWeek(y, m, d) ==
    LET t  == <<0, 3, 2, 5, 0, 3, 5, 1, 4, 6, 2, 4>>
        yy == IF m < 3 THEN y - 1 ELSE y
        sunday0 == (yy + yy \div 4 - yy \div 100 + yy \div 400 + t[m] + d) % 7
    IN  (sunday0 + 6) % 7

\* ISO-8601: a week belongs to the year that holds its Thursday, and is
\* numbered by that Thursday's place among the Thursdays of the year.
IsoWeek(s) ==
    LET y   == s[1]
        thu == DayOfYear(y, s[2], s[3]) - DayOfWeek(y, s[2], s[3]) + 3
        inYear == IF thu < 1 THEN thu + DaysInYear(y - 1)
                  ELSE IF thu > DaysInYear(y) THEN thu - DaysInYear(y)
                  ELSE thu
    IN  (inYear - 1) \div 7 + 1

\* The k-th smallest member of a set of numbers.
Nth(S, k) ==
    CHOOSE x \in S : Cardinality({y \in S : y < x}) = k - 1

RECURSIVE SumOver(_, _)
SumOver(f, S) ==
    IF S = {} THEN 0
    ELSE LET x == CHOOSE y \in S : TRUE
         IN  f[x] + SumOver(f, S \ {x})

\* Position of an id in the order the ids were handed out.
IssuedAt(id) ==
    CHOOSE k \in DOMAIN issued : issued[k] = id

Rejected(f) ==
    f.tp <= 0 \/ f.sl <= 0 \/ f.entry_price <= 0

\* C1: a submission with tp <= 0 or sl <= 0 or entry_price <= 0 leaves the
\* stored records exactly as they were and reports an error.
C1_RejectedSubmitWritesNothing ==
    [][(event'.kind = "submit" /\ Rejected(event'.form))
        => /\ db'.trades = db.trades
           /\ all_trades' = get_all_trades(db)
           /\ notice' = "error"]_vars

C1_Witness ==
    /\ event.kind = "submit"
    /\ Rejected(event.form)
    /\ event.form.tp > 0
    /\ event.form.sl > 0
    /\ notice = "error"
    /\ db.trades # {}

\* C2: every stored record's rr is round(tp / sl, 2) of its own tp and sl,
\* and no step changes the rr, tp or sl of a record that stays stored.
C2_RrIsRoundedRatio ==
    [][/\ \A r \in db'.trades : IsRounded(r.rr, r.tp, r.sl)
       /\ \A r \in db.trades, q \in db'.trades :
            q.id = r.id => q.rr = r.rr /\ q.tp = r.tp /\ q.sl = r.sl]_vars

C2_Witness ==
    /\ event.kind = "update"
    /\ \E r \in db.trades :
         /\ r.id = event.id
         /\ r.result = Some(event.result)
         /\ r.tp = 3 /\ r.sl = 8 /\ r.rr = 38
    /\ \E r \in db.trades : r.tp = 1 /\ r.sl = 8 /\ r.rr = 12

\* C3: update_result on a stored id sets that record's result and pips to
\* the values given, changes no other field of it, no field of any other
\* record, and not the number of records.
C3_UpdateTouchesResultAndPipsOnly ==
    [][(event'.kind = "update" /\ event'.id \in Ids(db))
        => /\ Cardinality(db'.trades) = Cardinality(db.trades)
           /\ Len(all_trades') = Len(all_trades)
           /\ \A r \in db.trades :
                \E i \in DOMAIN all_trades' :
                  LET q == all_trades'[i]
                  IN  /\ q \in db'.trades
                      /\ q.id = r.id
                      /\ r.id # event'.id => q = r
                      /\ r.id = event'.id =>
                           /\ q.result = Some(event'.result)
                           /\ q.pips = Some(event'.pips)
                           /\ DOMAIN q = DOMAIN r
                           /\ \A c \in DOMAIN r \ {"result", "pips"} :
                                q[c] = r[c]]_vars

C3_Witness ==
    /\ event.kind = "update"
    /\ \E r, o \in db.trades :
         /\ r.id = event.id
         /\ r.result = Some(event.result)
         /\ r.pips = Some(event.pips)
         /\ o.id # r.id
         /\ o.result # r.result

\* C4: after delete(id) the list holds no record with that id, and every
\* record with another id is still there with all its fields.
C4_DeleteRemovesThatIdOnly ==
    [][event'.kind = "delete"
        => /\ \A i \in DOMAIN all_trades' : all_trades'[i].id # event'.id
           /\ \A r \in db'.trades : r.id # event'.id
           /\ \A r \in db.trades :
                r.id # event'.id =>
                    r \in db'.trades /\ r \in Range(all_trades')]_vars

C4_Witness ==
    /\ event.kind = "delete"
    /\ event.id \in Range(issued)
    /\ event.id \notin Ids(db)
    /\ \E r \in db.trades : r.id > event.id
    /\ all_trades # <<>>

\* C5: update_result and delete with an id no stored record has leave the
\* store exactly as it was and report no error.
C5_UnknownIdIsNoOp ==
    [][(event'.kind \in {"update", "delete"} /\ event'.id \notin Ids(db))
        => /\ db' = db
           /\ all_trades' = get_all_trades(db)
           /\ notice' # "error"]_vars

C5_Witness ==
    /\ event.kind \in {"update", "delete"}
    /\ event.id \notin Range(issued)
    /\ db.trades # {}
    /\ notice # "error"

\* C6: ids are unique; an id that appears is greater than every id handed
\* out before it, so a deleted id does not come back; and the ids present
\* change only by an insert adding one or a delete removing its own.
C6_IdsUniqueIncreasingImmutable ==
    [][/\ \A r, q \in db'.trades : r.id = q.id => r = q
       /\ \A i \in Ids(db') \ Ids(db) : \A j \in Range(issued) : i > j
       /\ Cardinality(Ids(db') \ Ids(db)) <= 1
       /\ event'.kind # "submit" => Ids(db') \subseteq Ids(db)
       /\ Ids(db) \ Ids(db') \subseteq
            (IF event'.kind = "delete" THEN {event'.id} ELSE {})]_vars

C6_Witness ==
    /\ event.kind = "submit"
    /\ notice = "success"
    /\ issued # <<>>
    /\ issued[Len(issued)] \in Ids(db)
    /\ \E j \in Range(issued) : j \notin Ids(db) /\ j < issued[Len(issued)]

\* C9: list_all returns every stored record exactly once, in the order of
\* insertion, which is the ascending order of the ids.
C9_ListIsInsertionOrder ==
    /\ Range(all_trades) = db.trades
    /\ Len(all_trades) = Cardinality(db.trades)
    /\ \A i, j \in DOMAIN all_trades :
         i < j => /\ all_trades[i].id < all_trades[j].id
                  /\ all_trades[i].id \in Range(issued)
                  /\ all_trades[j].id \in Range(issued)
                  /\ IssuedAt(all_trades[i].id) < IssuedAt(all_trades[j].id)

C9_Witness ==
    /\ Len(all_trades) = 2
    /\ all_trades[1].time[1] = 2025
    /\ all_trades[2].time[1] = 2024
    /\ event.kind = "update"

\* C7: the filter returns exactly the records whose pair is in pair_set,
\* whose trade_type is in type_set and whose day is on or after min_date,
\* in the order of the input; an empty pair_set or type_set gives nothing.
C7_FilterIsExactAndStable ==
    LET kept == {i \in DOMAIN all_trades :
                    /\ all_trades[i].pair \in pair_filter
                    /\ all_trades[i].trade_type \in type_filter
                    /\ OnOrAfter(all_trades[i].time, date_filter)}
    IN  /\ Len(filtered) = Cardinality(kept)
        /\ \A k \in DOMAIN filtered : filtered[k] = all_trades[Nth(kept, k)]
        /\ (pair_filter = {} \/ type_filter = {}) => filtered = <<>>

C7_Witness ==
    /\ event.kind = "filter"
    /\ Len(all_trades) = 2
    /\ Len(filtered) = 1
    /\ \E i \in DOMAIN all_trades :
         /\ all_trades[i].pair \in pair_filter
         /\ all_trades[i].trade_type \in type_filter
         /\ ~OnOrAfter(all_trades[i].time, date_filter)
    /\ filtered[1].time = <<2025, 1, 1, 0, 0, 0>>

\* C10: weekly_counts maps each ISO week number to the number of records
\* in that week and monthly_counts each month to the number in that month;
\* only weeks and months with a record appear, the counts of each mapping
\* add up to the number of records, and one record gives {W: 1}.
C10_CountsPerWeekAndMonth ==
    LET n     == Len(all_trades)
        week  == [i \in 1 .. n |-> IsoWeek(all_trades[i].time)]
        month == [i \in 1 .. n |-> all_trades[i].time[2]]
    IN  /\ DOMAIN weekly = Range(week)
        /\ \A w \in DOMAIN weekly :
             weekly[w] = Cardinality({i \in 1 .. n : week[i] = w})
        /\ SumOver(weekly, DOMAIN weekly) = n
        /\ DOMAIN monthly = Range(month)
        /\ DOMAIN monthly \subseteq 1 .. 12
        /\ \A m \in DOMAIN monthly :
             monthly[m] = Cardinality({i \in 1 .. n : month[i] = m})
        /\ SumOver(monthly, DOMAIN monthly) = n
        /\ n = 1 => weekly = [w \in {week[1]} |-> 1]

C10_Witness ==
    /\ event.kind = "filter"
    /\ Len(all_trades) = 2
    /\ \E w \in DOMAIN weekly : weekly[w] = 2
    /\ Cardinality(DOMAIN monthly) = 2

\* C8: a start on any earlier state of the file keeps every row and every
\* value, keeps the columns there were, and ends with the three optional
\* columns present; on a file that has them already it changes nothing,
\* and a further start after it changes nothing either.
C8_SetupIsAdditiveAndIdempotent ==
    [][event'.kind = "start"
        => /\ OptionalColumns \subseteq Range(db'.columns)
           /\ Len(db'.columns) >= Len(db.columns)
           /\ \A i \in DOMAIN db.columns : db'.columns[i] = db.columns[i]
           /\ Cardinality(db'.trades) = Cardinality(db.trades)
           /\ \A r \in db.trades :
                \E q \in db'.trades : \A c \in DOMAIN r : q[c] = r[c]
           /\ OptionalColumns \subseteq Range(db.columns) => db' = db
           /\ db_setup(db') = db']_vars

C8_Witness ==
    /\ event.kind = "start"
    /\ Cardinality(db.trades) = 2
    /\ db.columns[Len(db.columns)] = "pips"
    /\ db.columns[Len(db.columns) - 1] = "entry_price"
    /\ \E r \in db.trades :
         r.entry_price = None /\ r.pips = None /\ r.result # None

====
